---- MODULE Spec2Model ----
(***************************************************************************)
(* A model of jrSortTable 1.2.1 (src/jrSortTable_1.2.1.js): the registry   *)
(* jrSortTables.tableProp, the per-header sort state, jrSortTables.sort,   *)
(* the comparators of jrSortTables.sort_functions and the classification   *)
(* done by jrSortTables.setup.                                             *)
(*                                                                         *)
(* Text is a sequence of one-character strings.  Indices into cells and    *)
(* header cells are 0-based as cellIndex is; tbody.rows and the cached     *)
(* array are sequences, so the code's index i is i + 1 here.               *)
(***************************************************************************)
EXTENDS Integers, Sequences, FiniteSets, TLC

(***************************************************************************)
(* Bounds of the model.                                                    *)
(***************************************************************************)
\* number of tables carrying the class "sortable" in the document
NumTables == 2
\* total number of clicks on header or footer cells in one behaviour
MaxSorts == 4
\* total number of changes made by other scripts (rows added or removed,
\* isSorted reset) in one behaviour
MaxExternal == 1

(***************************************************************************)
(* Characters and text.                                                    *)
(***************************************************************************)
Digits == {"0", "1", "2", "3", "4", "5", "6", "7", "8", "9"}

\* the characters \s matches among those the documents below use
WhiteSpace == {" "}

\* UTF-16 code unit of a character, which is what < on strings compares
CharCode(ch) ==
  CASE ch = " " -> 32 [] ch = "$" -> 36 [] ch = "%" -> 37 [] ch = "," -> 44
    [] ch = "-" -> 45 [] ch = "." -> 46 [] ch = "/" -> 47
    [] ch = "0" -> 48 [] ch = "1" -> 49 [] ch = "2" -> 50 [] ch = "3" -> 51
    [] ch = "4" -> 52 [] ch = "5" -> 53 [] ch = "6" -> 54 [] ch = "7" -> 55
    [] ch = "8" -> 56 [] ch = "9" -> 57
    [] ch = "A" -> 65 [] ch = "I" -> 73 [] ch = "N" -> 78
    [] ch = "a" -> 97 [] ch = "b" -> 98 [] ch = "c" -> 99 [] ch = "f" -> 102
    [] ch = "i" -> 105 [] ch = "n" -> 110 [] ch = "t" -> 116 [] ch = "y" -> 121
    [] OTHER -> 127

DigitVal(ch) == CharCode(ch) - 48

\* s.substr(start, length): start is 0-based, and the result is cut at the
\* end of s
substr(s, start, length) ==
  LET lo == start + 1
      hi == IF start + length < Len(s) THEN start + length ELSE Len(s)
  IN  IF lo > hi THEN <<>> ELSE SubSeq(s, lo, hi)

\* s.replace(re, '') for a global character-class pattern: the characters
\* of s that are in keep, in order
RECURSIVE Keep(_, _)
Keep(s, keep) ==
  IF s = <<>> THEN <<>>
  ELSE IF Head(s) \in keep THEN <<Head(s)>> \o Keep(Tail(s), keep)
  ELSE Keep(Tail(s), keep)

\* s.replace(re, '') for a global pattern of the characters in drop
Drop(s, drop) == SelectSeq(s, LAMBDA ch : ch \notin drop)

\* s.replace(/,/, '.'): only the first comma is replaced
ReplaceFirstComma(s) ==
  IF \E i \in 1..Len(s) : s[i] = ","
  THEN LET i == CHOOSE k \in 1..Len(s) :
                  s[k] = "," /\ \A j \in 1..(k - 1) : s[j] # ","
       IN  [s EXCEPT ![i] = "."]
  ELSE s

\* the value of a run of decimal digits
RECURSIVE DigitsValue(_)
DigitsValue(s) ==
  IF s = <<>> THEN 0
  ELSE 10 * DigitsValue(SubSeq(s, 1, Len(s) - 1)) + DigitVal(s[Len(s)])

RECURSIVE Pow10(_)
Pow10(n) == IF n = 0 THEN 1 ELSE 10 * Pow10(n - 1)

\* the comparison of two strings by <, ===: -1, 0 or 1, code unit by code
\* unit, a proper prefix first
RECURSIVE CodeUnitCompare(_, _)
CodeUnitCompare(s, t) ==
  IF s = <<>> /\ t = <<>> THEN 0
  ELSE IF s = <<>> THEN -1
  ELSE IF t = <<>> THEN 1
  ELSE IF CharCode(Head(s)) < CharCode(Head(t)) THEN -1
  ELSE IF CharCode(Head(s)) > CharCode(Head(t)) THEN 1
  ELSE CodeUnitCompare(Tail(s), Tail(t))

(***************************************************************************)
(* Numbers.  A number is NaN, an infinity (inf = 1 or -1), or a decimal    *)
(* [m, e] standing for m / 10^e, so that the values the documents hold are *)
(* exact.                                                                  *)
(***************************************************************************)
NaN == [nan |-> TRUE, inf |-> 0, m |-> 0, e |-> 0]

Dec(m, e) == [nan |-> FALSE, inf |-> 0, m |-> m, e |-> e]

\* Infinity (sign = 1) and -Infinity (sign = -1)
Infinity(sign) == [nan |-> FALSE, inf |-> sign, m |-> 0, e |-> 0]

InfinityText == <<"I", "n", "f", "i", "n", "i", "t", "y">>

\* a - b on two numbers that are not NaN.  The difference of two decimals
\* is the decimal at the larger of the two scales; an infinity minus the
\* same infinity is NaN
Minus(a, b) ==
  LET e == IF a.e > b.e THEN a.e ELSE b.e
  IN  IF a.inf # 0 /\ b.inf = a.inf THEN NaN
      ELSE IF a.inf # 0 THEN Infinity(a.inf)
      ELSE IF b.inf # 0 THEN Infinity(0 - b.inf)
      ELSE Dec(a.m * Pow10(e - a.e) - b.m * Pow10(e - b.e), e)

\* the longest prefix of s that is a decimal literal: an optional sign,
\* then Infinity, or digits and an optional fraction.  (An exponent needs
\* an e after the digits, which no text here has.)
DecimalPrefix(s) ==
  LET n      == Len(s)
      signed == n > 0 /\ s[1] \in {"-", "+"}
      p0     == IF signed THEN 2 ELSE 1
      RunEnd(p) ==
        IF \E q \in p..n : s[q] \notin Digits
        THEN (CHOOSE q \in p..n :
                 s[q] \notin Digits /\ \A r \in p..(q - 1) : s[r] \in Digits) - 1
        ELSE n
      iEnd   == RunEnd(p0)
      dotted == iEnd < n /\ s[iEnd + 1] = "."
      fEnd   == IF dotted THEN RunEnd(iEnd + 2) ELSE iEnd
      iLen   == iEnd - p0 + 1
      fLen   == IF dotted THEN fEnd - (iEnd + 1) ELSE 0
      ok     == iLen > 0 \/ fLen > 0
      digs   == SubSeq(s, p0, iEnd) \o (IF dotted THEN SubSeq(s, iEnd + 2, fEnd) ELSE <<>>)
      mag    == DigitsValue(digs)
      minus  == signed /\ s[1] = "-"
      infEnd == p0 + Len(InfinityText) - 1
  IN  IF infEnd <= n /\ SubSeq(s, p0, infEnd) = InfinityText
      THEN [ok |-> TRUE, len |-> infEnd,
            val |-> Infinity(IF minus THEN -1 ELSE 1)]
      ELSE [ok  |-> ok,
            len |-> IF ok THEN fEnd ELSE 0,
            val |-> IF ok THEN Dec(IF minus THEN 0 - mag ELSE mag, fLen)
                    ELSE NaN]

\* text.replace(/^\s+|\s+$/g, '')
RECURSIVE TrimLeft(_)
TrimLeft(s) ==
  IF s # <<>> /\ Head(s) \in WhiteSpace THEN TrimLeft(Tail(s)) ELSE s

RECURSIVE TrimRight(_)
TrimRight(s) ==
  IF s # <<>> /\ s[Len(s)] \in WhiteSpace
  THEN TrimRight(SubSeq(s, 1, Len(s) - 1)) ELSE s

\* parseFloat(s): the number its longest decimal prefix denotes, after
\* leading white space, or NaN
parseFloat(s) == DecimalPrefix(TrimLeft(s)).val

\* Number(s), the conversion isNaN(s) and s - t apply to a string: the
\* whole trimmed string must be a decimal literal, and "" is 0
ToNumber(s) ==
  LET t == TrimRight(TrimLeft(s))
      p == DecimalPrefix(t)
  IN  IF t = <<>> THEN Dec(0, 0)
      ELSE IF p.ok /\ p.len = Len(t) THEN p.val
      ELSE NaN

(***************************************************************************)
(* jrSortTables.sort_functions.  A comparator takes two elements of the    *)
(* cached array, <<key, row>>, and returns a number.  A comparator is      *)
(* named in the state by its property name in sort_functions.              *)
(***************************************************************************)
\* the property names of sort_functions, in the order for-in visits them
sort_function_names ==
  <<"alphaNumeric", "sortDate", "sortDate_American", "sortNumberJS", "sortNumber_nonJS">>

\* the same names as text
sort_function_text ==
  << <<"a","l","p","h","a","N","u","m","e","r","i","c">>,
     <<"s","o","r","t","D","a","t","e">>,
     <<"s","o","r","t","D","a","t","e","_","A","m","e","r","i","c","a","n">>,
     <<"s","o","r","t","N","u","m","b","e","r","J","S">>,
     <<"s","o","r","t","N","u","m","b","e","r","_","n","o","n","J","S">> >>

\* String.prototype.localeCompare in the root collation, for the characters
\* the documents use: white space, punctuation, symbols, currency, digits,
\* letters; a letter's case decides only between strings otherwise equal,
\* lower case first
CollationPrimary(ch) ==
  CASE ch = " " -> 1 [] ch = "-" -> 2 [] ch = "," -> 3 [] ch = "." -> 4
    [] ch = "/" -> 5 [] ch = "%" -> 6 [] ch = "$" -> 7
    [] ch \in Digits -> 10 + DigitVal(ch)
    [] ch \in {"a", "A"} -> 30 [] ch = "b" -> 31 [] ch = "c" -> 32
    [] ch = "f" -> 35 [] ch \in {"i", "I"} -> 38 [] ch \in {"n", "N"} -> 43
    [] ch = "t" -> 49 [] ch = "y" -> 54
    [] OTHER -> 99

CollationCase(ch) == IF ch \in {"A", "I", "N"} THEN 1 ELSE 0

\* two sequences of weights compared position by position, a proper prefix
\* first: -1, 0 or 1
RECURSIVE CompareWeights(_, _)
CompareWeights(u, v) ==
  IF u = <<>> /\ v = <<>> THEN 0
  ELSE IF u = <<>> THEN -1
  ELSE IF v = <<>> THEN 1
  ELSE IF Head(u) < Head(v) THEN -1
  ELSE IF Head(u) > Head(v) THEN 1
  ELSE CompareWeights(Tail(u), Tail(v))

localeCompare(s, t) ==
  LET p == CompareWeights([i \in 1..Len(s) |-> CollationPrimary(s[i])],
                          [i \in 1..Len(t) |-> CollationPrimary(t[i])])
  IN  IF p # 0 THEN p
      ELSE CompareWeights([i \in 1..Len(s) |-> CollationCase(s[i])],
                          [i \in 1..Len(t) |-> CollationCase(t[i])])

\* every key parseFloat reads is a number, leading zeros or not
AlphaNumericKey_parsed(aa) ==
  IF Len(aa) = 0 THEN [type |-> "number", s |-> aa, n |-> Dec(0, 0)]
  ELSE IF parseFloat(aa).nan THEN [type |-> "string", s |-> aa, n |-> NaN]
  ELSE [type |-> "number", s |-> aa, n |-> parseFloat(aa)]

\* lines 107-114: the value alphaNumeric compares a key by.  A key that
\* begins with 0 stays a string; otherwise the empty key is the number 0 and
\* a key parseFloat reads is that number
AlphaNumericKey(aa) ==
  IF aa # <<>> /\ aa[1] = "0"
  THEN [type |-> "string", s |-> aa, n |-> NaN]
  ELSE IF Len(aa) = 0 THEN [type |-> "number", s |-> aa, n |-> Dec(0, 0)]
  ELSE IF parseFloat(aa).nan THEN [type |-> "string", s |-> aa, n |-> NaN]
  ELSE [type |-> "number", s |-> aa, n |-> parseFloat(aa)]

alphaNumeric(a, b) ==
  LET tmpa == AlphaNumericKey(a[1])
      tmpb == AlphaNumericKey(b[1])
  IN  IF tmpa.type = "string" /\ tmpb.type = "string"
      THEN Dec(localeCompare(tmpa.s, tmpb.s), 0)
      ELSE IF tmpa.type = "number" /\ tmpb.type = "number"
      THEN Minus(tmpa.n, tmpb.n)
      \* typeof tmpa < typeof tmpb: "number" < "string"
      ELSE IF tmpa.type = "number" THEN Dec(-1, 0) ELSE Dec(1, 0)

sortDate(a, b) ==
  LET aa == a[1]
      bb == b[1]
      date1 == substr(aa, 6, 4) \o substr(aa, 3, 2) \o substr(aa, 0, 2)
      date2 == substr(bb, 6, 4) \o substr(bb, 3, 2) \o substr(bb, 0, 2)
  IN  Dec(CodeUnitCompare(date1, date2), 0)

sortDate_American(a, b) ==
  LET aa == a[1]
      bb == b[1]
      date1 == substr(aa, 6, 4) \o substr(aa, 0, 2) \o substr(aa, 3, 2)
      date2 == substr(bb, 6, 4) \o substr(bb, 0, 2) \o substr(bb, 3, 2)
  IN  Dec(CodeUnitCompare(date1, date2), 0)

\* isNaN(aa) replaces aa by 0; aa - bb converts both to numbers
ZeroIfNaN(n) == IF n.nan THEN Dec(0, 0) ELSE n

\* the thousands separator is left in the key
sortNumberJS_commaKept(a, b) ==
  LET aa == Keep(a[1], Digits \cup {".", "-", ","})
      bb == Keep(b[1], Digits \cup {".", "-", ","})
  IN  Minus(ZeroIfNaN(ToNumber(aa)), ZeroIfNaN(ToNumber(bb)))

sortNumberJS(a, b) ==
  LET aa == Drop(Keep(a[1], Digits \cup {".", "-"}), {","})
      bb == Drop(Keep(b[1], Digits \cup {".", "-"}), {","})
  IN  Minus(ZeroIfNaN(ToNumber(aa)), ZeroIfNaN(ToNumber(bb)))

sortNumber_nonJS(a, b) ==
  LET aa == ReplaceFirstComma(Drop(Keep(a[1], Digits \cup {",", "-"}), {"."}))
      bb == ReplaceFirstComma(Drop(Keep(b[1], Digits \cup {",", "-"}), {"."}))
  IN  Minus(ZeroIfNaN(ToNumber(aa)), ZeroIfNaN(ToNumber(bb)))

\* sortfn(a, b) for the comparator a header cell holds
ApplySortFn(sortfn, a, b) ==
  CASE sortfn = "alphaNumeric"      -> alphaNumeric(a, b)
    [] sortfn = "sortDate"          -> sortDate(a, b)
    [] sortfn = "sortDate_American" -> sortDate_American(a, b)
    [] sortfn = "sortNumberJS"      -> sortNumberJS(a, b)
    [] sortfn = "sortNumber_nonJS"  -> sortNumber_nonJS(a, b)

\* jrSortTables.getElementText
getElementText(textContent) == TrimRight(TrimLeft(textContent))

(***************************************************************************)
(* The classification prepareTables does for each header cell.             *)
(***************************************************************************)
\* txtCell.match(/^-?\D*?[\d,.]+[\s%]*?$/): a prefix without digits (the
\* optional - is one), then at least one of digit , . and then only white
\* space and %
MatchesNumber(txtCell) ==
  \E i \in 0..Len(txtCell) : \E j \in (i + 1)..Len(txtCell) :
    /\ \A p \in 1..i : txtCell[p] \notin Digits
    /\ \A p \in (i + 1)..j : txtCell[p] \in Digits \cup {",", "."}
    /\ \A p \in (j + 1)..Len(txtCell) : txtCell[p] \in WhiteSpace \cup {"%"}

\* txtCell.match(/^(\d\d?)[/.-](\d\d?)[/.-]((\d\d)?\d\d)$/): the lengths of
\* the three groups, when the text matches
DateGroupLengths(txtCell) ==
  {g \in {1, 2} \X {1, 2} \X {2, 4} :
     /\ Len(txtCell) = g[1] + 1 + g[2] + 1 + g[3]
     /\ \A p \in 1..g[1] : txtCell[p] \in Digits
     /\ txtCell[g[1] + 1] \in {"/", ".", "-"}
     /\ \A p \in (g[1] + 2)..(g[1] + 1 + g[2]) : txtCell[p] \in Digits
     /\ txtCell[g[1] + g[2] + 2] \in {"/", ".", "-"}
     /\ \A p \in (g[1] + g[2] + 3)..Len(txtCell) : txtCell[p] \in Digits}

\* testDate[k], k = 1 or 2
DateGroup(txtCell, k) ==
  LET g == CHOOSE x \in DateGroupLengths(txtCell) : TRUE
  IN  IF k = 1 THEN SubSeq(txtCell, 1, g[1])
      ELSE SubSeq(txtCell, g[1] + 2, g[1] + 1 + g[2])

\* parseInt(s, 10) on a run of digits
parseInt(s) == DigitsValue(s)

guessDataType(txtCell) ==
  IF Len(txtCell) > 0 /\ MatchesNumber(txtCell) THEN "sortNumberJS"
  ELSE IF Len(txtCell) > 0 /\ DateGroupLengths(txtCell) # {}
  THEN IF parseInt(DateGroup(txtCell, 1)) > 12 THEN "sortDate"
       ELSE IF parseInt(DateGroup(txtCell, 2)) > 12 THEN "sortDate_American"
       ELSE "sortDate"
  ELSE "alphaNumeric"

\* name occurs in text at 0-based position pos
OccursAt(name, text, pos) ==
  /\ pos + Len(name) <= Len(text)
  /\ \A k \in 1..Len(name) : text[pos + k] = name[k]

\* rxFn.exec(className)[0] for rxFn = new RegExp(arr.join('|')): the match
\* at the leftmost position where an alternative matches, and there the
\* first alternative, in the order of arr, that matches; 0 when exec
\* returns null.  The result is the index of the alternative in arr.
rxFnExec(className) ==
  LET Hits(pos) == {n \in 1..Len(sort_function_text) :
                      OccursAt(sort_function_text[n], className, pos)}
      positions == {pos \in 0..Len(className) : Hits(pos) # {}}
  IN  IF positions = {} THEN 0
      ELSE LET pos == CHOOSE q \in positions : \A r \in positions : q <= r
           IN  CHOOSE n \in Hits(pos) : \A m \in Hits(pos) : n <= m

\* getSortFn: '' (written "") when no name is found
getSortFn(className) ==
  LET found == rxFnExec(className)
  IN  IF found # 0 THEN sort_function_names[found] ELSE ""

\* lines 254-257: fn || guessDataType(getElementText(first row's cell))
HeaderSortFn(className, firstCellText) ==
  LET fn == getSortFn(className)
  IN  IF fn # "" THEN fn ELSE guessDataType(getElementText(firstCellText))

(***************************************************************************)
(* The document.  Every table of the class "sortable" has the same shape:  *)
(* one header row, the body rows below, and the first table a footer row   *)
(* with one cell more than the header row.  A row is <<table, k>>, k its   *)
(* index in BodyText; its cells never change.                              *)
(***************************************************************************)
Tables == 1..NumTables

\* className of each header cell, by cellIndex + 1
HeadClass == << <<>>, <<"n","u","m">> >>

\* textContent of the cells of each row
BodyText ==
  << << <<" ","b"," ">>, <<"$","9",".","5","0">> >>,
     << <<"a">>,         <<"-","2">> >>,
     << <<"c">>,         <<"7","%">> >>,
     << <<"a">>,         <<"1","0">> >> >>

\* the rows in the tbody when the document has loaded; the other rows are
\* created, or put back, by other scripts later
LoadedRows == <<1, 2, 3>>

Columns == 0..(Len(HeadClass) - 1)

RowsOf(t) == {<<t, k>> : k \in 1..Len(BodyText)}

AllRows == UNION {RowsOf(t) : t \in Tables}

\* row.cells[column].textContent
CellText(row, column) == BodyText[row[2]][column + 1]

\* tableElem.tFoot.rows[0].cells.length, 0 for a table without tfoot
FootCells(t) == IF t = 1 THEN Len(HeadClass) + 1 ELSE 0

\* the th cells of the document: <<table, section, cellIndex>>
Cells ==
  {<<t, "thead", c>> : t \in Tables, c \in Columns}
    \cup UNION {{<<t, "tfoot", c>> : c \in 0..(FootCells(t) - 1)} : t \in Tables}

(***************************************************************************)
(* The state.                                                              *)
(***************************************************************************)
VARIABLES
  tableProp,    \* jrSortTables.tableProp: key -> [headerCells, spanArrowId, tbody]
  headerCells,  \* per table, thead.rows[0].cells with the properties setup and sort put on them
  tbodyRows,    \* per table, tbody.rows
  onclick,      \* the cells with a click handler, each with the tblNumber its closure holds
  spans,        \* the span elements sort has put in the document
  lastClick,    \* the cell clicked last, <<>> before the first click
  lastOutcome,  \* how the click handler that ran last ended: "ok" or "TypeError"
  nClicks,      \* clicks so far
  nExternal,    \* changes by other scripts so far
  touched,      \* the tables other scripts have put rows in or taken rows from
  shown,        \* per table and column, what the latest sort request on the column
                \* left: <<[rows, sortdir]>> of that table and column, <<>> before the first
  probe,        \* a header cell classified on its own: [className, text, sortfn]
  compared      \* three keys and a comparator applied to them: [keys, sortfn, res]

vars ==
  <<tableProp, headerCells, tbodyRows, onclick, spans, lastClick, lastOutcome,
    nClicks, nExternal, touched, shown, probe, compared>>

\* a header cell setup has not touched: no sortfn, sortdir, isSorted
NoHeader ==
  [sortfn |-> "", sortdir |-> "", isSorted |-> FALSE, currentSortedTBody |-> <<>>]

NoProbe == [className |-> <<>>, parts |-> <<>>, text |-> <<>>, sortfn |-> ""]

NoCompared == [keys |-> <<>>, sortfn |-> "", res |-> <<>>]

InitDocument ==
  /\ tableProp = <<>>
  /\ headerCells = [t \in Tables |-> [c \in Columns |-> NoHeader]]
  /\ tbodyRows = [t \in Tables |-> [i \in 1..Len(LoadedRows) |-> <<t, LoadedRows[i]>>]]
  /\ onclick = <<>>
  /\ spans = {}
  /\ lastClick = <<>>
  /\ lastOutcome = "ok"
  /\ nClicks = 0
  /\ nExternal = 0
  /\ touched = {}
  /\ shown = [t \in Tables |-> [c \in Columns |-> <<>>]]

Init == InitDocument /\ probe = NoProbe /\ compared = NoCompared

(***************************************************************************)
(* jrSortTables.setup, run once by the load event.                         *)
(***************************************************************************)
\* the second argument prepareTables receives for table t: the callback
\* of forEach calls prepareTables(tbl), so tblNumber is undefined
tblNumberOf(t) == "undefined"

\* "jrSortSpan" + tblNumber
spanArrowIdOf(tblNumber) == <<"jrSortSpan", tblNumber>>

\* the entry prepareTables stores for table t; headerCells and tbody refer
\* to the table's own live collections
TablePropEntry(t) ==
  [headerCells |-> t, spanArrowId |-> spanArrowIdOf(tblNumberOf(t)), tbody |-> t]

\* tableProp after prepareTables has run for every table in document
\* order: a later table replaces the entry of an earlier one with its key
PreparedTableProp ==
  [key \in {tblNumberOf(t) : t \in Tables} |->
     LET owners == {t \in Tables : tblNumberOf(t) = key}
     IN  TablePropEntry(CHOOSE t \in owners : \A u \in owners : u <= t)]

\* lines 250-258: the properties put on header cell i of table t
PreparedHeader(t, i) ==
  [sortfn |-> HeaderSortFn(HeadClass[i + 1], CellText(tbodyRows[t][1], i)),
   sortdir |-> "up",
   isSorted |-> FALSE,
   currentSortedTBody |-> <<>>]

\* addEvent on the header row and, when there is one, the footer row: the
\* handler of a cell of table t calls sort(tblNumber, this)
PreparedOnclick == [th \in Cells |-> tblNumberOf(th[1])]

setup ==
  /\ DOMAIN tableProp = {}
  /\ \A t \in Tables : Len(tbodyRows[t]) > 0
  /\ tableProp' = PreparedTableProp
  /\ headerCells' = [t \in Tables |-> [i \in Columns |-> PreparedHeader(t, i)]]
  /\ onclick' = PreparedOnclick
  /\ UNCHANGED <<tbodyRows, spans, lastClick, lastOutcome, nClicks, nExternal, touched, shown, probe, compared>>

(***************************************************************************)
(* jrSortTables.sort(tblNumber, th).                                       *)
(***************************************************************************)
arrows == [up |-> "&nbsp;&#x25B4;", down |-> "&nbsp;&#x25BE;"]

Range(f) == {f[x] : x \in DOMAIN f}

Reverse(seq) == [i \in 1..Len(seq) |-> seq[Len(seq) + 1 - i]]

\* the rows of a cached array, in its order (element [1] of each pair)
RowsIn(cached) == [i \in 1..Len(cached) |-> cached[i][2]]

\* what Array.prototype.sort makes of the number a comparator returns:
\* its sign, and +0 for NaN
Sign(x) ==
  IF x.nan THEN 0
  ELSE IF x.inf # 0 THEN x.inf
  ELSE IF x.m < 0 THEN -1 ELSE IF x.m > 0 THEN 1 ELSE 0

\* the arrangements of 1..n
PermsOf(n) == {p \in [1..n -> 1..n] : \A i, j \in 1..n : i # j => p[i] # p[j]}

\* the signs of sortfn(arr[i], arr[j]), arr[j], ..., arr[Len(arr)]
RECURSIVE CompareRow(_, _, _, _)
CompareRow(arr, sortfn, i, j) ==
  IF j > Len(arr) THEN <<>>
  ELSE <<Sign(ApplySortFn(sortfn, arr[i], arr[j]))>> \o CompareRow(arr, sortfn, i, j + 1)

\* the rows of signs for arr[i], ..., arr[Len(arr)]
RECURSIVE CompareTable(_, _, _)
CompareTable(arr, sortfn, i) ==
  IF i > Len(arr) THEN <<>>
  ELSE <<CompareRow(arr, sortfn, i, 1)>> \o CompareTable(arr, sortfn, i + 1)

\* the arrays sort may leave for arr when cmp[i][j] is the sign of
\* sortfn(arr[i], arr[j])
Arrangements(arr, cmp) ==
  LET n == Len(arr)
      consistent ==
        /\ \A i \in 1..n : cmp[i][i] = 0
        /\ \A i, j \in 1..n : cmp[i][j] = 0 - cmp[j][i]
        /\ \A i, j, k \in 1..n : (cmp[i][j] = cmp[j][k]) => (cmp[i][k] = cmp[i][j])
      sorted == {p \in PermsOf(n) : \A i, j \in 1..n : i < j => cmp[p[i]][p[j]] <= 0}
  IN  {[i \in 1..n |-> arr[p[i]]] : p \in IF consistent THEN sorted ELSE PermsOf(n)}

\* Array.prototype.sort(sortfn) on arr.  When sortfn is a consistent
\* comparison function for the elements (ECMAScript: cmp(a, a) = 0, the sign
\* of cmp(b, a) opposite to that of cmp(a, b), =, < and > transitive) the
\* result is any arrangement in which no element is greater than a later
\* one, the order of equal elements being the engine's choice; otherwise it
\* is any arrangement the engine likes.
ArraySort(arr, sortfn) ==
  UNION {Arrangements(arr, cmp) : cmp \in {CompareTable(arr, sortfn, 1)}}

\* a toggle that only ever goes down
ToggleDirection_stuck(sort_direction) == "down"

\* line 48
ToggleDirection(sort_direction) == IF sort_direction = "up" THEN "down" ELSE "up"

\* a replay that forgets to go back to front
ReplayRows_noReverse(currentSortedTBody, sort_direction) == RowsIn(currentSortedTBody)

\* lines 49-60: the rows put in the fragment when the column is sorted
ReplayRows(currentSortedTBody, sort_direction) ==
  IF sort_direction = "up" THEN RowsIn(currentSortedTBody)
  ELSE Reverse(RowsIn(currentSortedTBody))

\* lines 68-73: [getElementText(row.cells[column]), row] for every row
KeyedRows(rows, column) ==
  [i \in 1..Len(rows) |-> <<getElementText(CellText(rows[i], column)), rows[i]>>]

\* lines 41 and 63-80: sort_direction on the branch that builds the array is
\* what the header cell held
FirstSortDirection(sortdir) == sortdir

\* the rows go into the fragment, and the fragment is never appended
AppendFragment_lost(rows, t, fragment) ==
  [u \in Tables |-> SelectSeq(rows[u], LAMBDA r : r \notin Range(fragment))]

\* the rows are copied to the end of the tbody and stay where they were
AppendFragment_copy(rows, t, fragment) ==
  [u \in Tables |-> IF u = t THEN rows[u] \o fragment ELSE rows[u]]

\* the fragment goes in before the first row of the tbody
AppendFragment_front(rows, t, fragment) ==
  [u \in Tables |->
     LET rest == SelectSeq(rows[u], LAMBDA r : r \notin Range(fragment))
     IN  IF u = t THEN fragment \o rest ELSE rest]

\* fragment.appendChild(row) for every row of fragment takes it out of the
\* rows it is in; tbody.appendChild(fragment) puts them, in the fragment's
\* order, at the end of the tbody of table t
AppendFragment(rows, t, fragment) ==
  [u \in Tables |->
     LET rest == SelectSeq(rows[u], LAMBDA r : r \notin Range(fragment))
     IN  IF u = t THEN rest \o fragment ELSE rest]

\* document.getElementById(id): the set holding the element, or {}
GetElementById(id) == {e \in spans : e.id = id}

\* lines 85-92: the old span leaves the document, a new one goes into th
MoveArrow(spanArrowId, th, sort_direction) ==
  (spans \ GetElementById(spanArrowId))
    \cup {[id |-> spanArrowId, parent |-> th, innerHTML |-> arrows[sort_direction]]}

\* one sortdir for the whole header row instead of one per cell
StoreHeader_sharedDirection(cells, t, column, cached, sort_direction) ==
  [cells EXCEPT ![t] =
     [d \in DOMAIN cells[t] |->
        IF d = column
        THEN [cells[t][d] EXCEPT !.isSorted = TRUE,
                                 !.currentSortedTBody = cached,
                                 !.sortdir = sort_direction]
        ELSE [cells[t][d] EXCEPT !.sortdir = sort_direction]]]

\* lines 75 and 95-96: what sort writes on header cell column of table t
StoreHeader(cells, t, column, cached, sort_direction) ==
  [cells EXCEPT ![t][column] =
     [@ EXCEPT !.isSorted = TRUE,
               !.currentSortedTBody = cached,
               !.sortdir = sort_direction]]

\* array.reverse() on the cached array, which reverses it in place
ReplayedCache_reversed(currentSortedTBody) == Reverse(currentSortedTBody)

\* lines 61-62: the sorted branch reads the cached array and leaves it as
\* it is (no array.reverse)
ReplayedCache(currentSortedTBody) == currentSortedTBody

\* a guard that returns quietly when there is no header cell
MissingHeader_silent(prop, th) ==
  [headerCells |-> headerCells, tbodyRows |-> tbodyRows, spans |-> spans,
   outcome |-> "ok"]

\* lines 37-45 when prop.headerCells[column] is undefined: reading
\* header.sortfn throws a TypeError before sort has written anything
MissingHeader(prop, th) ==
  [headerCells |-> headerCells, tbodyRows |-> tbodyRows, spans |-> spans,
   outcome |-> "TypeError"]

\* The states sort(tblNumber, th) can leave, as records of the variables it
\* writes.
sort(tblNumber, th) ==
  LET column == th[3]
      prop   == tableProp[tblNumber]
  IN  IF column \notin DOMAIN headerCells[prop.headerCells]
      THEN {MissingHeader(prop, th)}
      ELSE
        LET header == headerCells[prop.headerCells][column]
            Done(cached, dir, fragment) ==
              [headerCells |-> StoreHeader(headerCells, prop.headerCells, column, cached, dir),
               tbodyRows |-> AppendFragment(tbodyRows, prop.tbody, fragment),
               spans |-> MoveArrow(prop.spanArrowId, th, dir),
               outcome |-> "ok"]
        IN  IF header.isSorted
            THEN LET dir == ToggleDirection(header.sortdir)
                 IN  {Done(ReplayedCache(header.currentSortedTBody), dir,
                           ReplayRows(header.currentSortedTBody, dir))}
            ELSE {Done(cached, FirstSortDirection(header.sortdir), RowsIn(cached)) :
                    cached \in ArraySort(KeyedRows(tbodyRows[prop.tbody], column),
                                         header.sortfn)}

\* the table and the column a call the handler of th makes is about: the
\* table of the entry tableProp holds for the handler's tblNumber, and the
\* cell's index
RequestTable(th) == tableProp[onclick[th]].tbody

RequestColumn(th) == th[3]

\* the onclick handler of th: addOnClickEvt calls sort(tblNumber, this)
Click(th) ==
  /\ th \in DOMAIN onclick
  /\ nClicks < MaxSorts
  /\ \E after \in sort(onclick[th], th) :
       /\ headerCells' = after.headerCells
       /\ tbodyRows' = after.tbodyRows
       /\ spans' = after.spans
       /\ lastOutcome' = after.outcome
       /\ shown' = IF after.outcome = "ok" /\ RequestColumn(th) \in Columns
                   THEN [shown EXCEPT ![RequestTable(th)][RequestColumn(th)] =
                           <<[rows |-> after.tbodyRows[RequestTable(th)],
                              sortdir |-> after.headerCells[RequestTable(th)][RequestColumn(th)].sortdir]>>]
                   ELSE shown
  /\ lastClick' = th
  /\ nClicks' = nClicks + 1
  /\ UNCHANGED <<tableProp, onclick, nExternal, touched, probe, compared>>

(***************************************************************************)
(* What other scripts of the page do between two clicks: take a row out   *)
(* of a table, put a row that is in no table into one, and reset isSorted  *)
(* of a header cell to force a fresh sort.                                 *)
(***************************************************************************)
RemoveAt(seq, i) == [k \in 1..(Len(seq) - 1) |-> IF k < i THEN seq[k] ELSE seq[k + 1]]

deleteRow(t, i) ==
  /\ DOMAIN tableProp # {}
  /\ nExternal < MaxExternal
  /\ i \in 1..Len(tbodyRows[t])
  /\ tbodyRows' = [tbodyRows EXCEPT ![t] = RemoveAt(@, i)]
  /\ touched' = touched \cup {t}
  /\ nExternal' = nExternal + 1
  /\ UNCHANGED <<tableProp, headerCells, onclick, spans, lastClick, lastOutcome, nClicks, shown, probe, compared>>

insertRow(t, row, first) ==
  /\ DOMAIN tableProp # {}
  /\ nExternal < MaxExternal
  /\ row \in RowsOf(t) \ Range(tbodyRows[t])
  /\ tbodyRows' = [tbodyRows EXCEPT ![t] = IF first THEN <<row>> \o @ ELSE Append(@, row)]
  /\ touched' = touched \cup {t}
  /\ nExternal' = nExternal + 1
  /\ UNCHANGED <<tableProp, headerCells, onclick, spans, lastClick, lastOutcome, nClicks, shown, probe, compared>>

resetIsSorted(t, c) ==
  /\ DOMAIN tableProp # {}
  /\ nExternal < MaxExternal
  /\ headerCells[t][c].isSorted
  /\ headerCells' = [headerCells EXCEPT ![t][c].isSorted = FALSE]
  /\ nExternal' = nExternal + 1
  /\ UNCHANGED <<tableProp, tbodyRows, onclick, spans, lastClick, lastOutcome, nClicks, touched, shown, probe, compared>>

Next ==
  \/ setup
  \/ \E th \in Cells : Click(th)
  \/ \E t \in Tables : \E i \in 1..Len(BodyText) : deleteRow(t, i)
  \/ \E t \in Tables : \E row \in RowsOf(t) : \E first \in BOOLEAN : insertRow(t, row, first)
  \/ \E t \in Tables : \E c \in Columns : resetIsSorted(t, c)

Spec == Init /\ [][Next]_vars

(***************************************************************************)
(* The classification on its own: one header cell with a className and the *)
(* text of the first row's cell under it, drawn from the sets below, and    *)
(* the comparator lines 254-257 give it.                                    *)
(***************************************************************************)
\* className values: no class, a class that names no comparator, each
\* comparator's name, and a name among other classes
ProbeClassNames ==
  {<<>>, <<"n","u","m">>}
    \cup {sort_function_text[n] : n \in 1..Len(sort_function_text)}
    \cup {<<"c"," ">> \o sort_function_text[n] \o <<" ","x">> : n \in 1..Len(sort_function_text)}

\* the groups a date-like text is written from: <<first, separator, second,
\* separator, year>>
ProbeDateParts ==
  {<<"5">>, <<"1","2">>, <<"1","3">>, <<"2","5">>}
    \X {"/", ".", "-"}
    \X {<<"4">>, <<"1","2">>, <<"1","3">>, <<"3","1">>}
    \X {"/", ".", "-"}
    \X {<<"2","3">>, <<"2","0","2","3">>}

DateText(parts) == parts[1] \o <<parts[2]>> \o parts[3] \o <<parts[4]>> \o parts[5]

\* texts that are not date-like
ProbeOtherTexts ==
  {<<>>, <<" ","b"," ">>, <<"$","9",".","5","0">>, <<"N","/","A">>, <<"7","%">>,
   <<"0","0","7">>, <<"1","/","2">>}

InitClassify ==
  /\ InitDocument
  /\ compared = NoCompared
  /\ \E className \in ProbeClassNames :
       \/ \E parts \in ProbeDateParts :
            probe = [className |-> className, parts |-> parts,
                     text |-> DateText(parts), sortfn |-> ""]
       \/ \E text \in ProbeOtherTexts :
            probe = [className |-> className, parts |-> <<>>,
                     text |-> text, sortfn |-> ""]

\* lines 252-257 for the probed header cell
Classify ==
  /\ probe.sortfn = ""
  /\ probe' = [probe EXCEPT !.sortfn = HeaderSortFn(probe.className, probe.text)]
  /\ UNCHANGED <<tableProp, headerCells, tbodyRows, onclick, spans, lastClick,
                 lastOutcome, nClicks, nExternal, touched, shown, compared>>

NextClassify == Classify

SpecClassify == InitClassify /\ [][NextClassify]_vars

(***************************************************************************)
(* The comparators on their own: three keys drawn from the set below, and  *)
(* one comparator of sort_functions called on pairs of them the way        *)
(* Array.prototype.sort calls it, with elements [key, row].                *)
(***************************************************************************)
\* empty, numbers, leading zeros, letters, punctuation, currency and
\* infinities
ProbeKeys ==
  {<<>>,
   <<"7">>,
   <<"-", "2">>,
   <<"1", "0">>,
   <<"0">>,
   <<"0", "0", "7">>,
   <<"a">>,
   <<"A">>,
   <<"-">>,
   <<"%">>,
   <<"N", "/", "A">>,
   <<"$", "9", "9", ".", "9", "0">>,
   <<"$", "1", ",", "2", "3", "4", ".", "5", "0">>,
   <<"I", "n", "f", "i", "n", "i", "t", "y">>,
   <<"-", "I", "n", "f", "i", "n", "i", "t", "y">>}

\* date-like texts; they are compared with each other only, so that the
\* digits of two keys set to one scale stay within the integers
ProbeDateKeys ==
  {<<"2", "5", "/", "1", "2", "/", "2", "0", "2", "3">>,
   <<"0", "2", "/", "1", "2", "/", "2", "0", "2", "3">>,
   <<"9", "/", "1", "2", "/", "2", "0", "2", "3">>,
   <<"5", "/", "4", "/", "2", "0", "2", "3">>,
   <<"1", "2", "/", "2", "5", "/", "2", "0", "2", "3">>,
   <<"1", "3", "-", "0", "1", "-", "2", "4">>}

\* the element of the cached array for a key; the comparators read a[0] only
KeyElement(key) == <<key, <<1, 1>>>>

InitCompare ==
  /\ InitDocument
  /\ probe = NoProbe
  /\ \E keys \in (ProbeKeys \X ProbeKeys \X ProbeKeys)
                  \cup (ProbeDateKeys \X ProbeDateKeys \X ProbeDateKeys) :
       compared = [keys |-> keys, sortfn |-> "", res |-> <<>>]

\* sortfn(x, y) for the pairs of the three keys
Compare(sortfn) ==
  /\ compared.sortfn = ""
  /\ compared.keys # <<>>
  /\ compared' =
       [compared EXCEPT
          !.sortfn = sortfn,
          !.res = [p \in {<<1, 1>>, <<1, 2>>, <<2, 1>>, <<2, 3>>, <<1, 3>>} |->
                     ApplySortFn(sortfn, KeyElement(compared.keys[p[1]]),
                                 KeyElement(compared.keys[p[2]]))]]
  /\ UNCHANGED <<tableProp, headerCells, tbodyRows, onclick, spans, lastClick,
                 lastOutcome, nClicks, nExternal, touched, shown, probe>>

NextCompare == \E n \in 1..Len(sort_function_names) : Compare(sort_function_names[n])

SpecCompare == InitCompare /\ [][NextCompare]_vars

(***************************************************************************)
(* Properties.  A sort request is a call sort(tblNumber, th): it is about  *)
(* column th.cellIndex of the table whose entry tableProp holds under      *)
(* tblNumber.  Which table's entry the click on a cell reaches is the      *)
(* matter of C2.                                                           *)
(***************************************************************************)
\* this step is the handler of th running
Request(th) == nClicks' = nClicks + 1 /\ lastClick' = th

IsPermutation(a, b) ==
  /\ Len(a) = Len(b)
  /\ Range(a) = Range(b)
  /\ \A i, j \in 1..Len(a) : i # j => a[i] # a[j]

\* rows are in an ascending order of sortfn on the keys of column
Ascending(rows, column, sortfn) ==
  \A i, j \in 1..Len(rows) :
    i < j => Sign(ApplySortFn(sortfn, KeyedRows(rows, column)[i], KeyedRows(rows, column)[j])) <= 0

\* C1: with no change by other scripts, a request on a column never requested
\* before leaves the table's rows in an ascending order of the column's
\* comparator (result1), and every later request on the column leaves the
\* exact reverse of what the request before it on that column left, whatever
\* requests on other columns came between: result2 = reverse(result1),
\* result3 = reverse(result2) = result1, and so on for odd and even n.
C1_ToggleInvolution ==
  [][\A th \in Cells :
       (Request(th) /\ RequestColumn(th) \in Columns /\ nExternal = 0
          /\ Len(tbodyRows[RequestTable(th)]) >= 1)
       => LET t == RequestTable(th)
              c == RequestColumn(th)
          IN  IF shown[t][c] = <<>>
              THEN /\ IsPermutation(tbodyRows'[t], tbodyRows[t])
                   /\ Ascending(tbodyRows'[t], c, headerCells[t][c].sortfn)
              ELSE tbodyRows'[t] = Reverse(shown[t][c][1].rows)]_vars

\* a column requested, then another column, then the first again: its
\* second request, which left the reverse of its ascending order
C1_Witness ==
  /\ nExternal = 0
  /\ nClicks = 3
  /\ \E t \in Tables : \E c, d \in Columns :
       /\ c # d
       /\ lastClick # <<>> /\ lastClick[3] = c
       /\ headerCells[t][c].isSorted /\ headerCells[t][c].sortdir = "down"
       /\ headerCells[t][d].isSorted /\ headerCells[t][d].sortdir = "up"
       /\ Len(tbodyRows[t]) >= 3
       /\ tbodyRows[t] = Reverse(RowsIn(headerCells[t][c].currentSortedTBody))
       /\ tbodyRows[t] # RowsIn(headerCells[t][d].currentSortedTBody)

\* the arrow spans inside the cells of table t
IndicatorsIn(elements, t) == {e \in elements : e.parent[1] = t}

\* C2: a sort request triggered from a cell of table T changes the rows,
\* the column sort state and the indicator of no other table, and every
\* table has its own entry in tableProp, with its own tbody and header cells.
C2_TablesIndependent ==
  [][\A th \in Cells :
       Request(th)
       => /\ \A u \in Tables \ {th[1]} :
               /\ tbodyRows'[u] = tbodyRows[u]
               /\ headerCells'[u] = headerCells[u]
               /\ IndicatorsIn(spans', u) = IndicatorsIn(spans, u)
          /\ \A t \in Tables : \E key \in DOMAIN tableProp' :
               tableProp'[key].tbody = t /\ tableProp'[key].headerCells = t]_vars

\* C3: a request on a column whose isSorted is false, never sorted or reset
\* by another script, ends with isSorted true, sortdir "up", the cached
\* array built from the rows the table holds now and in ascending order, and
\* the table's rows in the order of the cached array.
C3_FreshSortAscending ==
  [][\A th \in Cells :
       (Request(th) /\ RequestColumn(th) \in Columns
          /\ ~headerCells[RequestTable(th)][RequestColumn(th)].isSorted)
       => LET t == RequestTable(th)
              c == RequestColumn(th)
              cached == headerCells'[t][c].currentSortedTBody
          IN  /\ headerCells'[t][c].isSorted
              /\ headerCells'[t][c].sortdir = "up"
              /\ IsPermutation(RowsIn(cached), tbodyRows[t])
              /\ cached = KeyedRows(RowsIn(cached), c)
              /\ tbodyRows'[t] = RowsIn(cached)]_vars

\* C4: a className that is exactly a name of sort_functions gives the header
\* cell the comparator of that name, whatever the first row's text is.
C4_OverrideTagWins ==
  \A n \in 1..Len(sort_function_text) :
    (probe.sortfn # "" /\ probe.className = sort_function_text[n])
    => probe.sortfn = sort_function_names[n]

\* C5: a sort request leaves the rows of every table other scripts have
\* added no row to and removed no row from a permutation of what they were.
C5_RowsArePermuted ==
  [][\A th \in Cells :
       Request(th)
       => \A t \in Tables \ touched : IsPermutation(tbodyRows'[t], tbodyRows[t])]_vars

\* a first sort and a toggle have both reordered an untouched table
C5_Witness ==
  /\ touched = {}
  /\ nClicks >= 2
  /\ lastOutcome = "ok"
  /\ \E t \in Tables : \E c \in Columns :
       /\ headerCells[t][c].sortdir = "down"
       /\ tbodyRows[t] # [i \in 1..Len(LoadedRows) |-> <<t, LoadedRows[i]>>]
       /\ Range(tbodyRows[t]) = {<<t, LoadedRows[i]>> : i \in 1..Len(LoadedRows)}

\* C6: a sort request on column c of a table leaves every other header cell
\* as it was, and no step after setup changes the sortfn of any header cell.
C6_OtherColumnsUntouched ==
  [][/\ \A th \in Cells :
          Request(th)
          => \A t \in Tables : \A d \in Columns :
               (t # RequestTable(th) \/ d # RequestColumn(th))
               => headerCells'[t][d] = headerCells[t][d]
     /\ DOMAIN tableProp # {}
          => \A t \in Tables : \A d \in Columns :
               headerCells'[t][d].sortfn = headerCells[t][d].sortfn]_vars

\* two columns of one table hold different cached orders and directions
C6_Witness ==
  \E t \in Tables : \E c, d \in Columns :
    /\ headerCells[t][c].isSorted /\ headerCells[t][d].isSorted
    /\ headerCells[t][c].sortdir = "down" /\ headerCells[t][d].sortdir = "up"
    /\ headerCells[t][c].sortfn # headerCells[t][d].sortfn
    /\ RowsIn(headerCells[t][c].currentSortedTBody)
         # RowsIn(headerCells[t][d].currentSortedTBody)
    /\ lastClick # <<>> /\ lastClick[3] = d

\* C7: a request on a column whose isSorted is true leaves its sortdir the
\* other of "up" and "down", and different from the one the request before
\* it on that column left.
C7_DirectionAlternates ==
  [][\A th \in Cells :
       (Request(th) /\ RequestColumn(th) \in Columns
          /\ headerCells[RequestTable(th)][RequestColumn(th)].isSorted)
       => LET t == RequestTable(th)
              c == RequestColumn(th)
          IN  /\ headerCells'[t][c].sortdir \in {"up", "down"}
              /\ headerCells'[t][c].sortdir # headerCells[t][c].sortdir
              /\ shown[t][c] # <<>>
                   => headerCells'[t][c].sortdir # shown[t][c][1].sortdir]_vars

\* three requests on one column and none on another: up, down, up
C7_Witness ==
  /\ nClicks = 3
  /\ nExternal = 0
  /\ lastOutcome = "ok"
  /\ \E t \in Tables : \E c \in Columns :
       /\ headerCells[t][c].isSorted
       /\ headerCells[t][c].sortdir = "up"
       /\ shown[t][c] # <<>> /\ shown[t][c][1].sortdir = "up"
       /\ \A d \in Columns \ {c} : ~headerCells[t][d].isSorted
       /\ \A e \in spans : e.innerHTML = arrows["up"]

\* C8: the step that turns a column's isSorted from false to true leaves
\* its cached array holding exactly the rows the table held, and the cached
\* array of a column changes in no other step: not in a request on a sorted
\* column, not when rows are added or removed.
C8_CacheFrozen ==
  [][\A t \in Tables : \A c \in Columns :
       LET old == headerCells[t][c]
           new == headerCells'[t][c]
       IN  /\ (~old.isSorted /\ new.isSorted)
                => IsPermutation(RowsIn(new.currentSortedTBody), tbodyRows[t])
           /\ new.currentSortedTBody # old.currentSortedTBody
                => (~old.isSorted /\ new.isSorted)]_vars

\* a column was sorted, a row was put in, another column was sorted after
\* that and holds the row; the first column's cached array does not
C8_Witness ==
  \E t \in Tables : \E c, d \in Columns :
    /\ headerCells[t][c].isSorted /\ headerCells[t][d].isSorted
    /\ Len(headerCells[t][d].currentSortedTBody)
         = Len(headerCells[t][c].currentSortedTBody) + 1
    /\ Len(headerCells[t][c].currentSortedTBody) = Len(LoadedRows)
    /\ t \in touched

\* C9: a request whose cell index reaches no header cell ends with a
\* TypeError and leaves rows, header cells and arrow spans as they were.
C9_OutOfRangeThrows ==
  [][\A th \in Cells :
       (Request(th)
          /\ RequestColumn(th) \notin DOMAIN headerCells[RequestTable(th)])
       => /\ lastOutcome' = "TypeError"
          /\ tbodyRows' = tbodyRows
          /\ headerCells' = headerCells
          /\ spans' = spans]_vars

\* the last click was on a footer cell past the header row, after a sort
\* that left an arrow and a sorted column
C9_Witness ==
  /\ lastOutcome = "TypeError"
  /\ lastClick # <<>> /\ lastClick[3] \notin Columns
  /\ spans # {}
  /\ \E t \in Tables : \E c \in Columns : headerCells[t][c].isSorted

\* no name of sort_functions occurs in className
NoOverrideTag(className) ==
  \A n \in 1..Len(sort_function_text) : \A pos \in 0..Len(className) :
    ~OccursAt(sort_function_text[n], className, pos)

\* C10: without an override tag a text first<sep>second<sep>year gets
\* sortDate when first > 12, else sortDate_American when second > 12, else
\* sortDate, whichever of / . - separates the groups.
C10_DateRuleAnySeparator ==
  (probe.sortfn # "" /\ probe.parts # <<>> /\ probe.parts[2] = probe.parts[4]
     /\ NoOverrideTag(probe.className))
  => probe.sortfn =
       IF DigitsValue(probe.parts[1]) > 12 THEN "sortDate"
       ELSE IF DigitsValue(probe.parts[3]) > 12 THEN "sortDate_American"
       ELSE "sortDate"

\* the results of the comparator called last: key x with key y, x and y
\* positions in compared.keys
Result(x, y) == compared.res[<<x, y>>]

IsNumber(x) == ~x.nan

\* C11: every call of a comparator of sort_functions on two keys returns a
\* number that is negative, zero or positive: it is never NaN.
C11_ComparatorsTotal ==
  compared.sortfn # "" => \A p \in DOMAIN compared.res : IsNumber(compared.res[p])

\* the number a key denotes once every character other than digits, . and -
\* is removed: an optional -, digits with at most one ., one digit at least;
\* 0 when what is left is not written so
PeriodDecimalValue(key) ==
  LET left   == SelectSeq(key, LAMBDA ch : ch \in Digits \cup {".", "-"})
      minus  == left # <<>> /\ left[1] = "-"
      body   == IF minus THEN Tail(left) ELSE left
      dots   == {i \in 1..Len(body) : body[i] = "."}
      digits == SelectSeq(body, LAMBDA ch : ch \in Digits)
      scale  == IF dots = {} THEN 0 ELSE Len(body) - (CHOOSE i \in dots : TRUE)
      valid  == /\ \A i \in 1..Len(body) : body[i] # "-"
                /\ Cardinality(dots) <= 1
                /\ digits # <<>>
  IN  IF valid THEN Dec((IF minus THEN -1 ELSE 1) * DigitsValue(digits), scale)
      ELSE Dec(0, 0)

\* the elements [key, row] of the example column, and the order claimed
NumericExample ==
  << <<<<"$", "1", ",", "2", "3", "4", ".", "5", "0">>, <<1, 1>>>>,
     <<<<"$", "9", "9", ".", "9", "0">>, <<1, 2>>>>,
     <<<<"N", "/", "A">>, <<1, 3>>>> >>

NumericExampleSorted == <<NumericExample[3], NumericExample[2], NumericExample[1]>>

\* C12: sortNumberJS(a, b) has the sign of n(a) - n(b), n as in
\* PeriodDecimalValue, and sorting $1,234.50, $99.90, N/A with it gives
\* N/A, $99.90, $1,234.50.
C12_PeriodDecimalOrder ==
  /\ compared.sortfn = "sortNumberJS"
       => /\ \A p \in DOMAIN compared.res :
               /\ IsNumber(compared.res[p])
               /\ Sign(compared.res[p])
                    = Sign(Minus(PeriodDecimalValue(compared.keys[p[1]]),
                                 PeriodDecimalValue(compared.keys[p[2]])))
          /\ ArraySort(NumericExample, "sortNumberJS") = {NumericExampleSorted}

\* $1,234.50 has been compared with $99.90 and with N/A and is the greater
C12_Witness ==
  /\ compared.sortfn = "sortNumberJS"
  /\ compared.keys[1] = NumericExample[1][1]
  /\ compared.keys[2] = NumericExample[2][1]
  /\ compared.keys[3] = NumericExample[3][1]
  /\ Sign(Result(1, 2)) = 1 /\ Sign(Result(2, 3)) = 1 /\ Sign(Result(1, 3)) = 1

LeadingZero(key) == key # <<>> /\ key[1] = "0"

\* a key that reads as a number and does not begin with 0
ParsedNumber(key) == key # <<>> /\ key[1] # "0" /\ ~parseFloat(key).nan

\* C13: under alphaNumeric a key that begins with 0 compared with a key
\* that reads as a number and has no leading zero gives a positive result,
\* and the opposite call a negative one: the number comes first and the
\* two are never equal; two keys that begin with 0 compare as
\* localeCompare has them.
C13_LeadingZeroIsText ==
  compared.sortfn = "alphaNumeric"
  => /\ (LeadingZero(compared.keys[1]) /\ ParsedNumber(compared.keys[2]))
          => (Sign(Result(1, 2)) = 1 /\ Sign(Result(2, 1)) = -1)
     /\ (LeadingZero(compared.keys[1]) /\ LeadingZero(compared.keys[2]))
          => Sign(Result(1, 2)) = localeCompare(compared.keys[1], compared.keys[2])

\* 007 has been compared with 7, and with 0
C13_Witness ==
  /\ compared.sortfn = "alphaNumeric"
  /\ compared.keys = << <<"0", "0", "7">>, <<"7">>, <<"0">> >>
  /\ Sign(Result(1, 2)) = 1
  /\ Sign(Result(2, 1)) = -1
  /\ Sign(Result(1, 3)) = 1

\* C14: for every comparator and keys a, b, c: cmp(a, a) = 0, the sign of
\* cmp(a, b) is the opposite of the sign of cmp(b, a), and cmp(a, b) <= 0
\* with cmp(b, c) <= 0 gives cmp(a, c) <= 0.
C14_ConsistentOrdering ==
  compared.sortfn # ""
  => /\ IsNumber(Result(1, 1)) /\ Sign(Result(1, 1)) = 0
     /\ IsNumber(Result(1, 2)) /\ IsNumber(Result(2, 1))
     /\ Sign(Result(1, 2)) = 0 - Sign(Result(2, 1))
     /\ (IsNumber(Result(2, 3)) /\ Sign(Result(1, 2)) <= 0 /\ Sign(Result(2, 3)) <= 0)
          => (IsNumber(Result(1, 3)) /\ Sign(Result(1, 3)) <= 0)

\* C15: under alphaNumeric the empty key is before or equal to every key
\* compared as a number, and every key compared as a number is before every
\* key compared as text.
C15_EmptyNumberText ==
  compared.sortfn = "alphaNumeric"
  => LET a == compared.keys[1]
         b == compared.keys[2]
     IN  /\ (a = <<>> /\ b # <<>> /\ AlphaNumericKey(b).type = "number")
              => Sign(Result(1, 2)) <= 0
         /\ (a # <<>> /\ AlphaNumericKey(a).type = "number"
               /\ b # <<>> /\ AlphaNumericKey(b).type = "string")
              => Sign(Result(1, 2)) < 0

\* the three numbers of a date-like key, in the order they are written
DateFields(key) ==
  LET seps == {i \in 1..Len(key) : key[i] \in {"/", ".", "-"}}
      s1   == CHOOSE i \in seps : \A j \in seps : i <= j
      s2   == CHOOSE i \in seps : \A j \in seps : j <= i
  IN  <<DigitsValue(SubSeq(key, 1, s1 - 1)),
        DigitsValue(SubSeq(key, s1 + 1, s2 - 1)),
        DigitsValue(SubSeq(key, s2 + 1, Len(key)))>>

\* the day, month and year of a key of a column whose comparator is sortfn
DayOf(key, sortfn) == DateFields(key)[IF sortfn = "sortDate" THEN 1 ELSE 2]

MonthOf(key, sortfn) == DateFields(key)[IF sortfn = "sortDate" THEN 2 ELSE 1]

YearOf(key) == DateFields(key)[3]

\* the key is a date in the day/month order of sortfn
DateIn(key, sortfn) ==
  /\ DateGroupLengths(key) # {}
  /\ DayOf(key, sortfn) \in 1..31
  /\ MonthOf(key, sortfn) \in 1..12

\* a number that grows with the date
Chronology(key, sortfn) ==
  YearOf(key) * 10000 + MonthOf(key, sortfn) * 100 + DayOf(key, sortfn)

\* C16: in a column whose first cell gave it sortDate or sortDate_American,
\* for two date-like keys in the column's day/month order, with years
\* written with the same number of digits, the comparator's result is
\* negative exactly when the first date is the earlier one and zero exactly
\* when the two dates are the same.
C16_DateOrderChronological ==
  LET a == compared.keys[1]
      b == compared.keys[2]
      sortfn == compared.sortfn
  IN  (/\ sortfn \in {"sortDate", "sortDate_American"}
       /\ DateIn(a, sortfn) /\ DateIn(b, sortfn)
       /\ sortfn = guessDataType(a)
       /\ (YearOf(a) < 100) = (YearOf(b) < 100))
      => /\ (Sign(Result(1, 2)) < 0) = (Chronology(a, sortfn) < Chronology(b, sortfn))
         /\ (Sign(Result(1, 2)) = 0) = (Chronology(a, sortfn) = Chronology(b, sortfn))

\* the sequences of rows a request may have committed to reach rows: the
\* rows at the end of the table, from some position on
Suffixes(rows) == {SubSeq(rows, k, Len(rows)) : k \in 1..(Len(rows) + 1)}

\* C17: committing to the table once more the sequence of rows a request
\* has just committed leaves the rows of every table as they are.
C17_ApplyIdempotent ==
  [][\A th \in Cells :
       (Request(th) /\ lastOutcome' = "ok")
       => LET t == RequestTable(th)
          IN  /\ \E f \in Suffixes(tbodyRows'[t]) :
                   tbodyRows' = AppendFragment(tbodyRows, t, f)
              /\ \A f \in Suffixes(tbodyRows'[t]) :
                   tbodyRows' = AppendFragment(tbodyRows, t, f)
                   => AppendFragment(tbodyRows', t, f) = tbodyRows']_vars

\* the latest request left a table with a row ahead that is not among the
\* rows it committed
C17_Witness ==
  /\ lastOutcome = "ok"
  /\ \E t \in Tables : \E c \in Columns :
       /\ headerCells[t][c].isSorted
       /\ shown[t][c] # <<>> /\ shown[t][c][1].rows = tbodyRows[t]
       /\ Len(tbodyRows[t]) = Len(headerCells[t][c].currentSortedTBody) + 1
       /\ tbodyRows[t][1] \notin Range(RowsIn(headerCells[t][c].currentSortedTBody))
       /\ headerCells[t][c].sortdir = "up"

\* C18: a request on a sorted column leaves in the table the rows that are
\* not in the column's cached array, in the order they had, and after them
\* the rows of the cached array, forward for "up" and backward for "down".
C18_ReplayAfterOthers ==
  [][\A th \in Cells :
       (Request(th) /\ RequestColumn(th) \in Columns
          /\ headerCells[RequestTable(th)][RequestColumn(th)].isSorted)
       => LET t == RequestTable(th)
              c == RequestColumn(th)
              cached == RowsIn(headerCells[t][c].currentSortedTBody)
              others == SelectSeq(tbodyRows[t], LAMBDA r : r \notin Range(cached))
          IN  tbodyRows'[t] =
                others \o (IF headerCells'[t][c].sortdir = "up"
                           THEN cached ELSE Reverse(cached))]_vars

\* a row taken out of the table after the column was sorted is back after
\* the next request on the column
C18_Witness ==
  \E t \in touched : \E c \in Columns :
    /\ nExternal = 1
    /\ headerCells[t][c].isSorted
    /\ headerCells[t][c].sortdir = "down"
    /\ Len(headerCells[t][c].currentSortedTBody) = Len(LoadedRows)
    /\ shown[t][c] # <<>> /\ shown[t][c][1].rows = tbodyRows[t]
    /\ tbodyRows[t] = Reverse(RowsIn(headerCells[t][c].currentSortedTBody))

\* C19: after a request that ran to its end, the table of the request holds
\* exactly one arrow span, the span is in the cell of the request, and it
\* shows the arrow of the sortdir recorded for the request's column.
C19_OneIndicator ==
  [][\A th \in Cells :
       (Request(th) /\ lastOutcome' = "ok")
       => LET t == RequestTable(th)
              c == RequestColumn(th)
          IN  \E e \in spans' :
                /\ IndicatorsIn(spans', t) = {e}
                /\ e.parent = th
                /\ e.innerHTML = arrows[headerCells'[t][c].sortdir]]_vars

====
